---- MODULE Spec2Model ----
(***************************************************************************)
(* A model of ourmanga's main.py: the run driver (main), the chapter       *)
(* orchestrator (download_chapter) and the functions it calls.             *)
(*                                                                         *)
(* Strings are sequences of tokens.  A token is one character ("1", ",",   *)
(* "/", " ") or a literal piece of text that the program only ever         *)
(* handles as a unit (".jpg", "_ch_", "/chapter-").  Paths, URLs, file     *)
(* names and the chapter specifier are such sequences; concatenation is    *)
(* \o, str.find of a token is membership.                                  *)
(***************************************************************************)
EXTENDS Integers, Sequences, FiniteSets, TLC

\* ------------------------------------------------------------- bounds
\* longest chapter specifier (args.chapters) the driver is run with
MaxSpecLen == 3
\* most <img> elements of a chapter page
MaxLinks == 2
\* most files already present in the output directory before a call
MaxPreFiles == 2

\* ------------------------------------------------------------ strings
Range(s) == {s[i] : i \in DOMAIN s}

SeqsUpTo(S, n) == UNION {[1..k -> S] : k \in 0..n}

\* str.find(tok) != -1
Find(s, tok) == tok \in Range(s)

Digits == <<"0", "1", "2", "3", "4", "5", "6", "7", "8", "9">>

IsDigit(c) == \E d \in DOMAIN Digits : Digits[d] = c

DigitValue(c) == (CHOOSE d \in DOMAIN Digits : Digits[d] = c) - 1

\* the strings int() accepts among those built from the tokens used here
IsInt(s) == Len(s) > 0 /\ \A i \in DOMAIN s : IsDigit(s[i])

RECURSIVE int(_)
int(s) ==
  IF Len(s) = 1 THEN DigitValue(s[1])
  ELSE 10 * int(SubSeq(s, 1, Len(s) - 1)) + DigitValue(s[Len(s)])

\* f'{n}' of an int
RECURSIVE str(_)
str(n) ==
  IF n < 10 THEN <<Digits[n + 1]>>
  ELSE str(n \div 10) \o <<Digits[(n % 10) + 1]>>

\* s.split(sep)
RECURSIVE split(_, _)
split(s, sep) ==
  IF ~Find(s, sep) THEN <<s>>
  ELSE LET i == CHOOSE k \in DOMAIN s : s[k] = sep /\ \A j \in 1..(k - 1) : s[j] # sep
       IN  <<SubSeq(s, 1, i - 1)>> \o split(SubSeq(s, i + 1, Len(s)), sep)

IsSpace(c) == c \in {" ", "\n"}

\* s.strip()
RECURSIVE strip(_)
strip(s) ==
  IF s = <<>> THEN s
  ELSE IF IsSpace(s[1]) THEN strip(Tail(s))
  ELSE IF IsSpace(s[Len(s)]) THEN strip(SubSeq(s, 1, Len(s) - 1))
  ELSE s

\* ------------------------------------------------------ link extraction
\* pattern.match(s) for the patterns ".*/[0-9]*\<ext>": some "/" preceded by
\* anything but a line break, then digits (none is enough), then the
\* extension; re.match anchors the start only, text may follow.
match(s, ext) ==
  \E i \in DOMAIN s : \E j \in (i + 1)..Len(s) :
     /\ s[i] = "/"
     /\ \A k \in 1..(i - 1) : s[k] # "\n"
     /\ \A k \in (i + 1)..(j - 1) : IsDigit(s[k])
     /\ s[j] = ext

\* filter_jpg / filter_png: the pattern is tried on the trimmed src
filter_src(img, ext) == match(strip(img.src), ext)

\* [img['src'] for img in filter(filter_<ext>, all_images)]: the src values
\* as written (untrimmed), document order kept
RECURSIVE SelectSrc(_, _)
SelectSrc(imgs, ext) ==
  IF imgs = <<>> THEN <<>>
  ELSE LET rest == SelectSrc(Tail(imgs), ext)
       IN  IF filter_src(Head(imgs), ext)
           THEN <<Head(imgs).src>> \o rest ELSE rest

\* A parsed page: whether it has a <title>, and its <img> elements in
\* document order, each with or without a src attribute.
\* scrape_image_urls after a successful GET.  raised: soup.title is None
\* (AttributeError) or an img has no src (KeyError in the filter).
scrape_image_urls(page) ==
  LET jpgs == SelectSrc(page.imgs, ".jpg")
      raised == ~page.title \/ \E i \in DOMAIN page.imgs : ~page.imgs[i].has_src
  IN  [raised |-> raised,
       image_urls |-> IF raised THEN <<>>
                      ELSE IF Len(jpgs) < 1 THEN SelectSrc(page.imgs, ".png")
                      ELSE jpgs,
       format_str |-> ".jpg"]

Img(src) == [has_src |-> TRUE, src |-> src]

NoSrcImg == [has_src |-> FALSE, src |-> <<>>]

PagesOver(imgs, n) == [title : BOOLEAN, imgs : SeqsUpTo(imgs, n)]

\* ---------------------------------------------------------- file system
\* File contents: no bytes at all, bytes that are no image, or an image
\* of w x h pixels in a colour mode.
Empty == [kind |-> "empty", w |-> 0, h |-> 0, mode |-> "-"]

Junk == [kind |-> "junk", w |-> 0, h |-> 0, mode |-> "-"]

Image(w, h, mode) == [kind |-> "image", w |-> w, h |-> h, mode |-> mode]

NoFiles == [n \in {} |-> Empty]

\* What a path holds: nothing, a regular file, or a directory of files
\* (file name -> contents).
Absent == [kind |-> "absent", files |-> NoFiles]

RegularFile == [kind |-> "file", files |-> NoFiles]

Directory(files) == [kind |-> "dir", files |-> files]

\* open(name, 'wb') followed by write(data): the file is created or
\* truncated, then holds data
WriteFile(files, name, data) ==
  [n \in DOMAIN files \cup {name} |-> IF n = name THEN data ELSE files[n]]

RemoveFiles(files, gone) == [n \in DOMAIN files \ gone |-> files[n]]

\* the orders in which iterdir() may list a set of names
Orders(S) ==
  {l \in [1..Cardinality(S) -> S] : \A i, j \in DOMAIN l : i # j => l[i] # l[j]}

\* ------------------------------------------------------------- images
\* Image.open(p).convert('L').save(p)
convert_grayscale(data) == Image(data.w, data.h, "L")

\* Image.open succeeds on a file that holds an image
IsImage(data) == data.kind = "image"

\* the files rewritten by a set of convert_grayscale calls
Converted(files, done) ==
  [n \in DOMAIN files |-> IF n \in done THEN convert_grayscale(files[n]) ELSE files[n]]

\* img.name[:-4]: every file name of the model ends in one four-character
\* extension token, so the slice drops exactly that token
Stem(name) == SubSeq(name, 1, Len(name) - 1)

\* a key of the first digit only, int(img.name[:1])
SortKey_FirstDigit(name) == DigitValue(name[1])

\* the sort key, lambda img: int(img.name[:-4])
SortKey(name) == int(Stem(name))

\* list.sort(key=...): ascending by key, stable
RECURSIVE SortByKey(_)
SortByKey(l) ==
  IF l = <<>> THEN <<>>
  ELSE LET x == l[Len(l)]
           front == SortByKey(SubSeq(l, 1, Len(l) - 1))
           k == Cardinality({i \in DOMAIN front : SortKey(front[i]) <= SortKey(x)})
       IN  SubSeq(front, 1, k) \o <<x>> \o SubSeq(front, k + 1, Len(front))

\* Bigger without the portrait test
Bigger_AnyShape(im, page_size) == im.w + im.h > page_size[1] + page_size[2]

\* the test of make_pdf's first loop: a portrait image bigger than the best
Bigger(im, page_size) ==
  im.h > im.w /\ im.w + im.h > page_size[1] + page_size[2]

RECURSIVE PageSize(_, _, _)
PageSize(image_files, files, page_size) ==
  IF image_files = <<>> THEN page_size
  ELSE LET im == files[Head(image_files)]
       IN  PageSize(Tail(image_files), files,
                    IF Bigger(im, page_size) THEN <<im.w, im.h>> ELSE page_size)

\* The document make_pdf writes: FPDF(format=page_size), then per image
\* add_page() and image(path, 0, 0, width, height).
make_pdf(image_files, files) ==
  LET page_size == PageSize(image_files, files, <<0, 0>>)
  IN  [written |-> TRUE,
       page_size |-> page_size,
       pages |-> [i \in DOMAIN image_files |->
                    [image |-> image_files[i],
                     format |-> page_size,
                     w |-> files[image_files[i]].w,
                     h |-> files[image_files[i]].h]]]

NoDoc == [written |-> FALSE, page_size |-> <<0, 0>>, pages |-> <<>>]

\* HasJpg on the file's name alone
HasJpg_NameOnly(dir_path, name) == Find(name, ".jpg")

\* str(file).find('.jpg') != -1, file = dir_path / name
HasJpg(dir_path, name) == Find(dir_path \o <<"/">> \o name, ".jpg")

\* ------------------------------------------------------------ HTTP
\* session.get for an image: a transport exception, or a response
Responses(Bodies) ==
  {[raised |-> TRUE, status_code |-> 0, content |-> Empty]}
  \cup {[raised |-> FALSE, status_code |-> 200, content |-> b] : b \in Bodies}
  \cup {[raised |-> FALSE, status_code |-> 404, content |-> Junk]}

\* ---------------------------------------------------------------- state
VARIABLES
  chapters,    \* args.chapters: None or the specifier
  keep,        \* args.keep
  output,      \* args.output
  pc,          \* where main is: start, single, loop, call, done, crashed
  todo,        \* what is left of the iterable main loops over
  calls,       \* the calls of download_chapter so far, with their arguments
  step,        \* where download_chapter is
  fetch,       \* how the chapter page's GET ended: none, ok, exception
  page,        \* the page fetched
  image_urls,  \* download_chapter's image_urls
  idx,         \* download images started in this call
  dl,          \* the responses download_image got in this call
  dir,         \* what the call's output_dir path holds
  doc,         \* the document this call wrote, NoDoc if none
  errors       \* what this call logged or printed as an error

vars == <<chapters, keep, output, pc, todo, calls, step, fetch, page,
          image_urls, idx, dl, dir, doc, errors>>

args == <<chapters, keep, output>>

None == <<"None">>

\* args.url and args.filename
ArgsUrl == <<"http://host/manga">>

ArgsFilename == <<"out">>

NoPage == [title |-> FALSE, imgs |-> <<>>]

format_str == ".jpg"

\* the current call's arguments
Call == calls[Len(calls)]

\* an uncaught exception leaves download_chapter and main at once
Raise == step' = "Raised" /\ pc' = "crashed"

\* ------------------------------------------------------ download_chapter
\* download_chapter is entered; Dirs is what the output path may hold
CallChapter(url, output_dir, filename, Dirs) ==
  /\ calls' = Append(calls, [url |-> url, output_dir |-> output_dir,
                             filename |-> filename, keep |-> keep])
  /\ step' = "FetchingLinks"
  /\ fetch' = "none"
  /\ page' = NoPage
  /\ image_urls' = <<>>
  /\ idx' = 0
  /\ dl' = <<>>
  /\ dir' \in Dirs
  /\ doc' = NoDoc
  /\ errors' = {}

\* the step after scrape_image_urls returned
AfterFetch(urls) == IF Len(urls) < 1 THEN "Done" ELSE "PreparingDirectory"

\* image_urls, format_str = scrape_image_urls(session, url); the length test
FetchLinks(Pages) ==
  /\ step = "FetchingLinks"
  /\ \/ \* session.get raises: scrape_image_urls prints and returns None,
        \* and unpacking None raises TypeError
        /\ fetch' = "exception"
        /\ errors' = errors \cup {"cannot download"}
        /\ Raise
        /\ UNCHANGED <<page, image_urls>>
     \/ \E p \in Pages :
          LET r == scrape_image_urls(p)
          IN  /\ fetch' = "ok"
              /\ page' = p
              /\ image_urls' = r.image_urls
              /\ IF r.raised THEN Raise /\ UNCHANGED errors
                 ELSE /\ step' = AfterFetch(r.image_urls)
                      /\ errors' = IF Len(r.image_urls) < 1
                                   THEN errors \cup {"can't get image urls"}
                                   ELSE errors
                      /\ UNCHANGED pc
  /\ UNCHANGED <<args, todo, calls, idx, dl, dir, doc>>

\* AfterPrepare without the is_dir test
AfterPrepare_NoDirTest(d) == "Downloading"

\* the step after the directory tests
AfterPrepare(d) == IF d.kind = "file" THEN "Done" ELSE "Downloading"

PrepareDirectory ==
  /\ step = "PreparingDirectory"
  /\ dir' = IF dir.kind = "absent" THEN Directory(NoFiles) ELSE dir
  /\ step' = AfterPrepare(dir)
  /\ errors' = IF dir.kind = "file" THEN errors \cup {"is not a directory"}
               ELSE errors
  /\ UNCHANGED <<args, pc, todo, calls, fetch, page, image_urls, idx, dl, doc>>

\* what download_image leaves in the file it opened for writing
Written(response) ==
  IF ~response.raised /\ response.status_code = 200 THEN response.content
  ELSE Empty

\* one turn of the download loop: download_image(session, url, dir_path,
\* idx, format_str); after the last one the grayscale loop is next
DownloadImage(Bodies) ==
  /\ step = "Downloading"
  /\ idx < Len(image_urls)
  /\ \E response \in Responses(Bodies) :
       LET file == str(idx) \o <<format_str>>
       IN  /\ dir' = Directory(WriteFile(dir.files, file, Written(response)))
           /\ dl' = Append(dl, [index |-> idx, file |-> file,
                                existed |-> file \in DOMAIN dir.files,
                                response |-> response])
           /\ idx' = idx + 1
           /\ IF response.raised THEN Raise /\ UNCHANGED errors
              ELSE /\ step' = IF idx + 1 = Len(image_urls) THEN "Normalizing"
                              ELSE "Downloading"
                   /\ errors' = IF response.status_code = 200 THEN errors
                                ELSE errors \cup {"cannot download"}
                   /\ UNCHANGED pc
  /\ UNCHANGED <<args, todo, calls, fetch, page, image_urls, doc>>

\* for image_file in dir_path.iterdir(): convert_grayscale(image_file).
\* Image.open raises on the first file listed that is no image; iterdir()
\* lists in any order, so any set of the images may have been rewritten
\* before it.
Normalize ==
  /\ step = "Normalizing"
  /\ LET images == {n \in DOMAIN dir.files : IsImage(dir.files[n])}
     IN  IF images = DOMAIN dir.files
         THEN /\ dir' = Directory(Converted(dir.files, images))
              /\ step' = "Assembling"
              /\ UNCHANGED pc
         ELSE /\ \E done \in SUBSET images : dir' = Directory(Converted(dir.files, done))
              /\ Raise
  /\ UNCHANGED <<args, todo, calls, fetch, page, image_urls, idx, dl, doc, errors>>

\* the step after make_pdf
AfterAssemble(k) == IF k THEN "Done" ELSE "Cleanup"

\* list the directory, sort by numeric name, make_pdf; int() raises
\* ValueError on a name that is no number
Assemble ==
  /\ step = "Assembling"
  /\ \E listing \in Orders(DOMAIN dir.files) :
       IF \E i \in DOMAIN listing : ~IsInt(Stem(listing[i]))
       THEN Raise /\ UNCHANGED doc
       ELSE /\ doc' = make_pdf(SortByKey(listing), dir.files)
            /\ step' = AfterAssemble(keep)
            /\ UNCHANGED pc
  /\ UNCHANGED <<args, todo, calls, fetch, page, image_urls, idx, dl, dir, errors>>

\* the files the cleanup loop unlinks
Unlinked(dir_path, files) == {n \in DOMAIN files : HasJpg(dir_path, n)}

\* if not keep: unlink the .jpg files, then dir_path.rmdir(), which raises
\* OSError on a directory that still holds a file
Cleanup ==
  /\ step = "Cleanup"
  /\ LET left == RemoveFiles(dir.files, Unlinked(Call.output_dir, dir.files))
     IN  IF DOMAIN left = {}
         THEN dir' = Absent /\ step' = "Done" /\ UNCHANGED pc
         ELSE dir' = Directory(left) /\ Raise
  /\ UNCHANGED <<args, todo, calls, fetch, page, image_urls, idx, dl, doc, errors>>

\* ------------------------------------------------------------------ main
\* chapters is None: one call with the arguments as given
MainSingle(Dirs) ==
  /\ pc = "start"
  /\ chapters = None
  /\ CallChapter(ArgsUrl, output, ArgsFilename, Dirs)
  /\ pc' = "single"
  /\ UNCHANGED <<args, todo>>

StrChapter(s) == [int |-> FALSE, s |-> s, n |-> 0]

IntChapter(n) == [int |-> TRUE, s |-> <<>>, n |-> n]

\* range(lo, hi + 1)
range(lo, hi) == [i \in 1..(hi + 1 - lo) |-> IntChapter(lo + i - 1)]

\* The iterable main loops over.  bound is false where the code leaves the
\* name chapters unassigned (UnboundLocalError at the for statement) or
\* int() raises ValueError.
ParseChapters(spec) ==
  IF Find(spec, ",")
  THEN LET tokens == split(spec, ",")
       IN  [bound |-> TRUE, chapters |-> [i \in DOMAIN tokens |-> StrChapter(tokens[i])]]
  ELSE IF Find(spec, "-")
  THEN LET parts == split(spec, "-")
       IN  IF \E i \in DOMAIN parts : ~IsInt(parts[i])
           THEN [bound |-> FALSE, chapters |-> <<>>]
           ELSE [bound |-> TRUE, chapters |-> range(int(parts[1]), int(parts[2]))]
  ELSE [bound |-> FALSE, chapters |-> <<>>]

MainParse ==
  /\ pc = "start"
  /\ chapters # None
  /\ LET r == ParseChapters(chapters)
     IN  /\ todo' = r.chapters
         /\ pc' = IF r.bound THEN "loop" ELSE "crashed"
  /\ UNCHANGED <<args, calls, step, fetch, page, image_urls, idx, dl, dir, doc, errors>>

\* f'{chapter}'
Format(chapter) == IF chapter.int THEN str(chapter.n) ELSE chapter.s

ChapterUrl(url, chapter) == url \o <<"/chapter-">> \o Format(chapter)

ChapterOutput(out, chapter) == out \o <<"_ch_">> \o Format(chapter)

ChapterFilename(filename, chapter) == filename \o <<"_chapter_">> \o Format(chapter)

\* one turn of the for loop
MainCall(Dirs) ==
  /\ pc = "loop"
  /\ todo # <<>>
  /\ CallChapter(ChapterUrl(ArgsUrl, Head(todo)),
                 ChapterOutput(output, Head(todo)),
                 ChapterFilename(ArgsFilename, Head(todo)), Dirs)
  /\ todo' = Tail(todo)
  /\ pc' = "call"
  /\ UNCHANGED args

\* download_chapter returns to main
MainReturn ==
  /\ pc \in {"single", "call"}
  /\ step = "Done"
  /\ pc' = IF pc = "single" THEN "done" ELSE "loop"
  /\ UNCHANGED <<args, todo, calls, step, fetch, page, image_urls, idx, dl, dir,
                 doc, errors>>

\* the loop is over: print('> done.')
MainEnd ==
  /\ pc = "loop"
  /\ todo = <<>>
  /\ pc' = "done"
  /\ UNCHANGED <<args, todo, calls, step, fetch, page, image_urls, idx, dl, dir,
                 doc, errors>>

\* ------------------------------------------------------------- inputs
\* the characters a chapter specifier is made of
SpecAlphabet == {"1", "2", ",", "-"}

Specifiers == SeqsUpTo(SpecAlphabet, MaxSpecLen)

\* args.output: the default kind of path, and one with ".jpg" in it
Outputs == {<<"downloads">>, <<"scans", ".jpg", "_set">>}

\* the <img> elements of the chapter pages a call is run on
ChapterImgs == {Img(<<"/", "1", ".jpg">>), Img(<<"/", "2", ".png">>), NoSrcImg}

ChapterPages == PagesOver(ChapterImgs, MaxLinks)

\* the image bodies a server answers with, and one that is no image
ChapterBodies ==
  {Image(1, 2, "RGB"), Image(2, 3, "RGB"), Image(3, 1, "RGB"), Junk}

\* files that may lie in the output directory before the call
PreFiles ==
  {<<<<"1", "0", ".png">>, Image(1, 3, "L")>>,
   <<<<"2", ".png">>, Image(2, 2, "RGB")>>,
   <<<<"0", ".jpg">>, Image(3, 2, "L")>>,
   <<<<"x", ".jpg">>, Image(1, 2, "RGB")>>}

FilesOf(S) == [n \in {f[1] : f \in S} |-> (CHOOSE f \in S : f[1] = n)[2]]

ChapterDirs ==
  {Absent, RegularFile}
  \cup {Directory(FilesOf(S)) : S \in {T \in SUBSET PreFiles : Cardinality(T) <= MaxPreFiles}}

\* the driver's runs: a page without images, a page with one
DriverPages ==
  {[title |-> TRUE, imgs |-> <<>>],
   [title |-> TRUE, imgs |-> <<Img(<<"/", "1", ".jpg">>)>>]}

DriverDirs == {Absent, RegularFile}

DriverBodies == {Image(1, 2, "RGB")}

\* src values for the link extractor
ScrapeImgs ==
  {Img(<<"/", "1", ".jpg">>),
   Img(<<"x", "/", "1", "2", ".jpg">>),
   Img(<<" ", "/", "1", ".jpg", " ">>),
   Img(<<"/", ".jpg">>),
   Img(<<"/", "1", ".jpg", "?">>),
   Img(<<"/", "x", ".jpg">>),
   Img(<<"1", ".jpg">>),
   Img(<<"x", "\n", "/", "1", ".jpg">>),
   Img(<<"/", "1", ".png">>),
   Img(<<"/", "2", ".png", "?">>),
   Img(<<"/", "x", ".png">>),
   NoSrcImg}

ScrapePages == PagesOver(ScrapeImgs, MaxLinks)

\* --------------------------------------------------------- specifications
NoCall ==
  /\ calls = <<>>
  /\ step = "Idle"
  /\ fetch = "none"
  /\ page = NoPage
  /\ image_urls = <<>>
  /\ idx = 0
  /\ dl = <<>>
  /\ dir = Absent
  /\ doc = NoDoc
  /\ errors = {}

\* main is entered with any chapter specifier
Init ==
  /\ chapters \in {None} \cup Specifiers
  /\ keep \in BOOLEAN
  /\ output = <<"downloads">>
  /\ pc = "start"
  /\ todo = <<>>
  /\ NoCall

Next ==
  \/ MainSingle(DriverDirs)
  \/ MainParse
  \/ MainCall(DriverDirs)
  \/ MainReturn
  \/ MainEnd
  \/ FetchLinks(DriverPages)
  \/ PrepareDirectory
  \/ DownloadImage(DriverBodies)
  \/ Normalize
  \/ Assemble
  \/ Cleanup

Spec == Init /\ [][Next]_vars

\* one chapter (no specifier), over all pages, directories and responses
InitChapter ==
  /\ chapters = None
  /\ keep \in BOOLEAN
  /\ output \in Outputs
  /\ pc = "start"
  /\ todo = <<>>
  /\ NoCall

NextChapter ==
  \/ MainSingle(ChapterDirs)
  \/ MainReturn
  \/ FetchLinks(ChapterPages)
  \/ PrepareDirectory
  \/ DownloadImage(ChapterBodies)
  \/ Normalize
  \/ Assemble
  \/ Cleanup

SpecChapter == InitChapter /\ [][NextChapter]_vars

\* the link extraction of one chapter, over all pages
NextScrape ==
  \/ MainSingle({Absent})
  \/ FetchLinks(ScrapePages)

SpecScrape == InitChapter /\ [][NextScrape]_vars

\* ------------------------------------------------------------- claims
\* the files in dir are those the document was assembled from: make_pdf has
\* run and nothing has touched the directory since
Assembled == doc.written /\ (step = "Cleanup" \/ (step = "Done" /\ keep))

\* the steps that may follow a step of download_chapter
StepsAfter(s) ==
  CASE s = "Idle" -> {"FetchingLinks"}
    [] s = "FetchingLinks" -> {"PreparingDirectory", "Done"}
    [] s = "PreparingDirectory" -> {"Downloading", "Done"}
    [] s = "Downloading" -> {"Normalizing"}
    [] s = "Normalizing" -> {"Assembling"}
    [] s = "Assembling" -> {"Cleanup", "Done"}
    [] s = "Cleanup" -> {"Done"}
    [] s = "Done" -> {"FetchingLinks"}
    [] OTHER -> {}

\* C1: a call of download_chapter goes through its steps only in the order
\* Fetching Links, Preparing Directory, Downloading, Normalizing,
\* Assembling, Cleanup (optional), Done (an exception may end it at any
\* step); when the extracted link list is empty, or the output path is a
\* regular file, the very next step is Done, and the call is then in Done
\* with an error logged, no image download attempted and no document.
C1_StepOrderAndAborts ==
  /\ [][step' # step => step' \in StepsAfter(step) \cup {"Raised"}]_vars
  /\ [][(step = "FetchingLinks" /\ step' # "Raised" /\ image_urls' = <<>>)
          => step' = "Done"]_vars
  /\ [][(step = "PreparingDirectory" /\ dir.kind = "file") => step' = "Done"]_vars
  /\ []((step = "Done" /\ (image_urls = <<>> \/ dir.kind = "file"))
          => (errors # {} /\ dl = <<>> /\ idx = 0 /\ ~doc.written))

\* a call aborted on a path that is a regular file, after links were found
C1_Witness ==
  step = "Done" /\ dir.kind = "file" /\ image_urls # <<>> /\ errors # {}

\* C2 as claimed: after download_image got a response, on status 200 the
\* file {i}{ext} holds exactly the response bytes; on any other status an
\* error is reported and the call has left no file {i}{ext}.
C2_Claim ==
  (dl # <<>> /\ step \in {"Downloading", "Normalizing"} /\ ~dl[Len(dl)].response.raised)
  => LET d == dl[Len(dl)]
     IN  IF d.response.status_code = 200
         THEN d.file \in DOMAIN dir.files /\ dir.files[d.file] = d.response.content
         ELSE "cannot download" \in errors
              /\ (~d.existed => d.file \notin DOMAIN dir.files)

\* C3 as claimed: a transport exception of the chapter page's GET is
\* logged, the chapter ends in Done without a document, and main goes on.
C3_Claim ==
  fetch = "exception"
  => ("cannot download" \in errors /\ ~doc.written /\ step = "Done" /\ pc # "crashed")

\* the arguments claimed for the call of chapter value c (as text)
ExpectedCall(c) ==
  [url |-> ArgsUrl \o <<"/chapter-">> \o c,
   output_dir |-> output \o <<"_ch_">> \o c,
   filename |-> ArgsFilename \o <<"_chapter_">> \o c,
   keep |-> keep]

\* the chapter value a call's URL ends with
ChapterOf(call) == SubSeq(call.url, Len(ArgsUrl) + 2, Len(call.url))

RECURSIVE JoinComma(_)
JoinComma(tokens) ==
  IF tokens = <<>> THEN <<>>
  ELSE IF Len(tokens) = 1 THEN tokens[1]
  ELSE tokens[1] \o <<",">> \o JoinComma(Tail(tokens))

\* the numbers a specifier of the model can name
DashNumbers ==
  {int(s) : s \in {t \in SeqsUpTo({"1", "2"}, MaxSpecLen - 2) : t # <<>>}}

\* C4 as claimed: when main has ended, it has called download_chapter once
\* per comma-separated token, in token order and verbatim, for a specifier
\* with a ','; once per integer of lo..hi, ascending, for a specifier
\* 'lo-hi' with lo <= hi.  The call for chapter value c got URL +
\* '/chapter-{c}', output + '_ch_{c}' and filename + '_chapter_{c}', and
\* calls for different chapter values got different output directories and
\* file names.
C4_Claim ==
  LET c == [i \in DOMAIN calls |-> ChapterOf(calls[i])]
  IN  (pc \in {"done", "crashed"} /\ chapters # None)
      => /\ Find(chapters, ",")
              => /\ \A i \in DOMAIN calls :
                      calls[i] = ExpectedCall(c[i]) /\ ~Find(c[i], ",")
                 /\ calls # <<>>
                 /\ JoinComma(c) = chapters
         /\ \A lo, hi \in DashNumbers :
              (lo <= hi /\ chapters = str(lo) \o <<"-">> \o str(hi))
              => /\ Len(calls) = hi - lo + 1
                 /\ \A i \in DOMAIN calls : calls[i] = ExpectedCall(str(lo + i - 1))
         /\ \A i, j \in DOMAIN calls :
              c[i] # c[j] => /\ calls[i].output_dir # calls[j].output_dir
                             /\ calls[i].filename # calls[j].filename

\* C5 as claimed: when the specifier is omitted or holds neither ',' nor
\* '-', main has, when it ends, called download_chapter exactly once, with
\* the URL, output directory and file name as given.
C5_Claim ==
  (pc \in {"done", "crashed"}
     /\ (chapters = None \/ (~Find(chapters, ",") /\ ~Find(chapters, "-"))))
  => calls = <<[url |-> ArgsUrl, output_dir |-> output,
                filename |-> ArgsFilename, keep |-> keep]>>

PathHasJpg(name) ==
  (\E i \in DOMAIN Call.output_dir : Call.output_dir[i] = ".jpg")
  \/ (\E i \in DOMAIN name : name[i] = ".jpg")

ClaimedMatch(s, ext) ==
  /\ Len(s) >= 2
  /\ s[Len(s)] = ext
  /\ \E i \in 1..(Len(s) - 1) :
       s[i] = "/" /\ \A k \in (i + 1)..(Len(s) - 1) : IsDigit(s[k])

RECURSIVE ClaimedSelect(_, _)
ClaimedSelect(imgs, ext) ==
  IF imgs = <<>> THEN <<>>
  ELSE LET rest == ClaimedSelect(Tail(imgs), ext)
       IN  IF Head(imgs).has_src /\ ClaimedMatch(strip(Head(imgs).src), ext)
           THEN <<Head(imgs).src>> \o rest ELSE rest

\* C7 as claimed: for every parsed page scrape_image_urls returns the src
\* values matching '<any prefix>/<digits-only>.jpg' in document order when
\* there is one, otherwise those matching '<any prefix>/<digits-only>.png'.
C7_Claim ==
  fetch = "ok"
  => /\ step # "Raised"
     /\ image_urls = IF ClaimedSelect(page.imgs, ".jpg") # <<>>
                     THEN ClaimedSelect(page.imgs, ".jpg")
                     ELSE ClaimedSelect(page.imgs, ".png")
     /\ scrape_image_urls(page).format_str = ".jpg"

\* C8: the document's page size is the (width, height) of a portrait image
\* (height > width) whose width+height no portrait image exceeds, (0,0)
\* when no image is portrait, and every page has that size.
C8_PageSize ==
  Assembled
  => LET portrait == {n \in DOMAIN dir.files : dir.files[n].h > dir.files[n].w}
     IN  /\ IF portrait = {} THEN doc.page_size = <<0, 0>>
            ELSE \E n \in portrait :
                   /\ doc.page_size = <<dir.files[n].w, dir.files[n].h>>
                   /\ \A m \in portrait :
                        dir.files[m].w + dir.files[m].h
                          <= dir.files[n].w + dir.files[n].h
         /\ \A i \in DOMAIN doc.pages : doc.pages[i].format = doc.page_size

\* a document of portrait images of different sizes and a landscape one
\* that is bigger than the smaller portrait
C8_Witness ==
  /\ Assembled
  /\ \E a, b, l \in DOMAIN dir.files :
       /\ dir.files[a].h > dir.files[a].w
       /\ dir.files[b].h > dir.files[b].w
       /\ dir.files[a].w + dir.files[a].h < dir.files[b].w + dir.files[b].h
       /\ dir.files[l].w > dir.files[l].h
       /\ dir.files[l].w + dir.files[l].h > dir.files[a].w + dir.files[a].h

\* C9: the document has one page per file of the working directory, and
\* the pages are in ascending order of the files' numeric index, whatever
\* the order of the directory listing.
C9_PageOrder ==
  Assembled
  => /\ Len(doc.pages) = Cardinality(DOMAIN dir.files)
     /\ {doc.pages[i].image : i \in DOMAIN doc.pages} = DOMAIN dir.files
     /\ \A i \in DOMAIN doc.pages :
          /\ doc.pages[i].w = dir.files[doc.pages[i].image].w
          /\ doc.pages[i].h = dir.files[doc.pages[i].image].h
     /\ \A i, j \in DOMAIN doc.pages :
          i < j => int(Stem(doc.pages[i].image)) <= int(Stem(doc.pages[j].image))

\* a document with file 2 before file 10, where the names sort the other way
C9_Witness ==
  /\ Assembled
  /\ \E i, j \in DOMAIN doc.pages :
       /\ i < j
       /\ doc.pages[i].image = <<"2", ".png">>
       /\ doc.pages[j].image = <<"1", "0", ".png">>

IsFailed(d) == ~d.response.raised /\ d.response.status_code # 200

IsOk(d) == ~d.response.raised /\ d.response.status_code = 200

\* the files of the downloads that succeeded, in index order
RECURSIVE OkFiles(_)
OkFiles(ds) ==
  IF ds = <<>> THEN <<>>
  ELSE (IF IsOk(Head(ds)) THEN <<Head(ds).file>> ELSE <<>>) \o OkFiles(Tail(ds))

\* C10 as claimed: a call into an empty directory, where every download
\* got a response, some a non-200 one and some an image, ends in Done with
\* a document whose pages are the downloaded images in index order.
C10_Claim ==
  (/\ step \in {"Done", "Raised"}
   /\ dl # <<>>
   /\ Len(dl) = Len(image_urls)
   /\ \A i \in DOMAIN dl : ~dl[i].response.raised /\ ~dl[i].existed
   /\ \A i \in DOMAIN dl : IsOk(dl[i]) => IsImage(dl[i].response.content)
   /\ DOMAIN dir.files \subseteq {dl[i].file : i \in DOMAIN dl}
   /\ \E i \in DOMAIN dl : IsFailed(dl[i])
   /\ \E i \in DOMAIN dl : IsOk(dl[i]))
  => /\ step = "Done"
     /\ doc.written
     /\ [i \in DOMAIN doc.pages |-> doc.pages[i].image] = OkFiles(dl)

====
